---- MODULE Spec2Model ----
(***************************************************************************)
(* Model of TorchSDF's setup.py: version resolution and stamping, the      *)
(* TORCHSDF_BUILD_EXT toggle, build_extensions() with its cross-compile    *)
(* architecture probe, and the final call of setuptools.setup().           *)
(*                                                                         *)
(* Text that the script parses (version.txt, the version, the nvcc banner) *)
(* is a sequence of one-character strings.  Text the script only compares  *)
(* or passes on (flag values, file names, macro names) is a TLA+ string.   *)
(* An environment variable is a record [set, val]; a file is a record      *)
(* [exists, data].                                                         *)
(*                                                                         *)
(* torch's extension constructors, BuildExtension.with_options and         *)
(* setuptools.setup are external code: they are modelled as returning      *)
(* normally with the arguments they were given.                            *)
(***************************************************************************)
EXTENDS Integers, Sequences, FiniteSets, TLC

VARIABLES
    pc,            \* position of the running process in the script
    runs,          \* number of processes started so far
    trace,         \* steps the running process has executed, in order
    versionTxt,    \* file <cwd>/version.txt
    envVersion,    \* environment variable TORCHSDF_VERSION
    pkgDir,        \* directory <cwd>/torchsdf: "ok", "missing" or "readonly"
    versionPy,     \* file <cwd>/torchsdf/version.py
    firstPy,       \* version.py as the first process left it
    csrc,          \* what the two glob patterns match under torchsdf/csrc
    envBuildExt,   \* environment variable TORCHSDF_BUILD_EXT
    toolchain,     \* TRUE iff the torch imports of build_extensions succeed
    cudaAvailable, \* torch.cuda.is_available()
    envForceCuda,  \* environment variable FORCE_CUDA
    archList0,     \* TORCH_CUDA_ARCH_LIST as the process inherited it
    archList,      \* TORCH_CUDA_ARCH_LIST in os.environ of the process
    probe,         \* outcome of the nvcc -V subprocess, if it was run
    version,       \* module global version
    build_ext,     \* local build_ext of the main block
    ext_modules,   \* local ext_modules of the main block
    cmdclass,      \* local cmdclass of the main block
    setupArgs      \* keyword arguments setup() was called with

vars == <<pc, runs, trace, versionTxt, envVersion, pkgDir, versionPy, firstPy,
          csrc, envBuildExt, toolchain, cudaAvailable, envForceCuda,
          archList0, archList, probe, version, build_ext, ext_modules,
          cmdclass, setupArgs>>

-----------------------------------------------------------------------------
(* Bounds of the model *)

MaxLen == 2        \* longest version.txt content, in characters
MaxRuns == 2       \* how many times the script is run in a row

-----------------------------------------------------------------------------
(* Program constants *)

PACKAGE_NAME == "torchsdf"
LICENSE == "Apache-2.0"
DEFAULT_VERSION == <<"0", ".", "0", ".", "0">>
EXT_NAME == PACKAGE_NAME \o "._C"
ARCH_BASE == "6.0;6.1;6.2;7.0;7.5"

-----------------------------------------------------------------------------
(* Strings, environment variables and files *)

Whitespace == {" ", "\n", "\t"}
Digits == {"0", "1", "2", "3", "4", "5", "6", "7", "8", "9"}

Unset == [set |-> FALSE, val |-> <<>>]
SetTo(v) == [set |-> TRUE, val |-> v]
UnsetFlag == [set |-> FALSE, val |-> ""]

\* os.environ.get(name, default) / os.getenv(name, default)
Getenv(var, default) == IF var.set THEN var.val ELSE default

NoFile == [exists |-> FALSE, data |-> <<>>]
File(d) == [exists |-> TRUE, data |-> d]

\* str.strip(): drop leading and trailing whitespace
RECURSIVE LStrip(_)
LStrip(s) ==
    IF s # <<>> /\ Head(s) \in Whitespace THEN LStrip(Tail(s)) ELSE s

RECURSIVE RStrip(_)
RStrip(s) ==
    IF s # <<>> /\ s[Len(s)] \in Whitespace
    THEN RStrip(SubSeq(s, 1, Len(s) - 1))
    ELSE s

Strip(s) == RStrip(LStrip(s))

\* f.readline(): the text up to and including the first newline
RECURSIVE ReadLine(_)
ReadLine(d) ==
    IF d = <<>> THEN <<>>
    ELSE IF Head(d) = "\n" THEN <<"\n">>
    ELSE <<Head(d)>> \o ReadLine(Tail(d))

-----------------------------------------------------------------------------
(* read_version and write_version_file *)

\* Variant: the environment override is consulted before the file
read_version_env_first(txt, env) ==
    IF env.set THEN env.val
    ELSE IF txt.exists THEN Strip(ReadLine(txt.data))
    ELSE DEFAULT_VERSION

read_version(txt, env) ==
    IF txt.exists THEN Strip(ReadLine(txt.data))
    ELSE Getenv(env, DEFAULT_VERSION)

\* Variant: the statement is written without its line terminator
VersionStatementNoNewline(v) ==
    <<"_", "_", "v", "e", "r", "s", "i", "o", "n", "_", "_", " ", "=", " ", "'">>
    \o v \o <<"'">>

VersionStatement(v) ==
    <<"_", "_", "v", "e", "r", "s", "i", "o", "n", "_", "_", " ", "=", " ", "'">>
    \o v \o <<"'", "\n">>

\* Variant: the file is opened in append mode
write_version_file_append(dir, old, v) ==
    IF dir = "ok"
    THEN [raised |-> FALSE,
          file |-> File(old.data \o
                        <<"_", "_", "v", "e", "r", "s", "i", "o", "n", "_", "_",
                          " ", "=", " ", "'">> \o v \o <<"'", "\n">>)]
    ELSE [raised |-> TRUE, file |-> old]

\* Variant: the shadowed first definition (lines 27-31), whose
\* os.makedirs(..., exist_ok=True) creates a missing package directory
write_version_file_makedirs(dir, old, v) ==
    IF dir \in {"ok", "missing"}
    THEN [raised |-> FALSE,
          file |-> File(<<"_", "_", "v", "e", "r", "s", "i", "o", "n", "_", "_",
                          " ", "=", " ", "'">> \o v \o <<"'", "\n">>)]
    ELSE [raised |-> TRUE, file |-> old]

\* The definition in effect (the second one): open(version_path, "w") without
\* creating the directory.  The result is the new state of the file, or
\* raised = TRUE when open() fails.
write_version_file(dir, old, v) ==
    IF dir = "ok"
    THEN [raised |-> FALSE, file |-> File(VersionStatement(v))]
    ELSE [raised |-> TRUE, file |-> old]

-----------------------------------------------------------------------------
(* get_cuda_bare_metal_version and Python's str.split / list.index / int *)

\* str.split() without arguments: maximal runs of non-whitespace characters
RECURSIVE SplitWsFrom(_, _, _, _)
SplitWsFrom(s, i, cur, acc) ==
    IF i > Len(s) THEN (IF cur = <<>> THEN acc ELSE Append(acc, cur))
    ELSE IF s[i] \in Whitespace
         THEN SplitWsFrom(s, i + 1, <<>>,
                          IF cur = <<>> THEN acc ELSE Append(acc, cur))
         ELSE SplitWsFrom(s, i + 1, Append(cur, s[i]), acc)

SplitWs(s) == SplitWsFrom(s, 1, <<>>, <<>>)

\* str.split(sep) with a one-character separator: empty pieces are kept
RECURSIVE SplitSepFrom(_, _, _, _, _)
SplitSepFrom(s, sep, i, cur, acc) ==
    IF i > Len(s) THEN Append(acc, cur)
    ELSE IF s[i] = sep
         THEN SplitSepFrom(s, sep, i + 1, <<>>, Append(acc, cur))
         ELSE SplitSepFrom(s, sep, i + 1, Append(cur, s[i]), acc)

SplitSep(s, sep) == SplitSepFrom(s, sep, 1, <<>>, <<>>)

\* list.index(x), 1-based; 0 stands for the ValueError of a missing element
Index(list, x) ==
    IF \E i \in 1..Len(list) : list[i] = x
    THEN CHOOSE i \in 1..Len(list) :
            list[i] = x /\ \A j \in 1..(i - 1) : list[j] # x
    ELSE 0

\* int(s) accepts: optional surrounding whitespace, an optional sign, then
\* decimal digits that single underscores may separate
IntBody(s) ==
    LET t == Strip(s)
    IN  IF t # <<>> /\ Head(t) \in {"+", "-"} THEN Tail(t) ELSE t

IsIntLiteral(s) ==
    LET b == IntBody(s)
    IN  /\ b # <<>>
        /\ \A i \in 1..Len(b) : b[i] \in Digits \cup {"_"}
        /\ b[1] # "_"
        /\ b[Len(b)] # "_"
        /\ \A i \in 1..(Len(b) - 1) : ~(b[i] = "_" /\ b[i + 1] = "_")

DigitSeq == <<"0", "1", "2", "3", "4", "5", "6", "7", "8", "9">>
DigitVal(c) == (CHOOSE i \in 1..10 : DigitSeq[i] = c) - 1

RECURSIVE DigitsValue(_, _)
DigitsValue(b, acc) ==
    IF b = <<>> THEN acc
    ELSE IF Head(b) = "_" THEN DigitsValue(Tail(b), acc)
    ELSE DigitsValue(Tail(b), 10 * acc + DigitVal(Head(b)))

IntValue(s) ==
    LET t == Strip(s)
        n == DigitsValue(IntBody(s), 0)
    IN  IF t # <<>> /\ Head(t) = "-" THEN 0 - n ELSE n

RELEASE == <<"r", "e", "l", "e", "a", "s", "e">>

NotRun == [ran |-> FALSE, raises |-> FALSE, raw |-> <<>>]
Raises == [ran |-> TRUE, raises |-> TRUE, raw |-> <<>>]
Prints(raw) == [ran |-> TRUE, raises |-> FALSE, raw |-> raw]

NoVersion == [ok |-> FALSE, major |-> <<>>, minor |-> <<>>]

\* out is what subprocess.check_output does: it raises or returns raw text.
\* ok = FALSE stands for any exception leaving the function.
get_cuda_bare_metal_version(out) ==
    IF out.raises THEN NoVersion
    ELSE LET output == SplitWs(out.raw)
             idx == Index(output, RELEASE)
         IN  IF idx = 0 \/ idx + 1 > Len(output) THEN NoVersion
             ELSE LET parts == SplitSep(output[idx + 1], ".")
                  IN  IF Len(parts) # 2 THEN NoVersion
                      ELSE IF parts[2] = <<>> THEN NoVersion
                      ELSE [ok |-> TRUE, major |-> parts[1],
                            minor |-> <<parts[2][1]>>]

\* Variant: every major version from 11 on gets the 8.x architectures
SelectArchListFrom11(major, minor) ==
    IF ~IsIntLiteral(major) THEN [ok |-> FALSE, val |-> ""]
    ELSE IF IntValue(major) >= 11
         THEN IF ~IsIntLiteral(minor) THEN [ok |-> FALSE, val |-> ""]
              ELSE [ok |-> TRUE,
                    val |-> "6.0;6.1;6.2;7.0;7.5;"
                            \o (IF IntValue(minor) = 0 THEN "8.0" ELSE "8.0;8.6")]
         ELSE [ok |-> TRUE, val |-> ARCH_BASE]

\* Lines 78-81: ok = FALSE stands for the ValueError of int()
SelectArchList(major, minor) ==
    IF ~IsIntLiteral(major) THEN [ok |-> FALSE, val |-> ""]
    ELSE IF IntValue(major) = 11
         THEN IF ~IsIntLiteral(minor) THEN [ok |-> FALSE, val |-> ""]
              ELSE [ok |-> TRUE,
                    val |-> "6.0;6.1;6.2;7.0;7.5;"
                            \o (IF IntValue(minor) = 0 THEN "8.0" ELSE "8.0;8.6")]
         ELSE [ok |-> TRUE, val |-> ARCH_BASE]

\* Variant: a failed probe falls back to the default table
ProbeArchListFallback(out, arch) ==
    LET r == get_cuda_bare_metal_version(out)
    IN  IF ~r.ok THEN SetTo(ARCH_BASE)
        ELSE LET a == SelectArchList(r.major, r.minor)
             IN  IF a.ok THEN SetTo(a.val) ELSE SetTo(ARCH_BASE)

\* The try block of lines 76-83: the new TORCH_CUDA_ARCH_LIST
ProbeArchList(out, arch) ==
    LET r == get_cuda_bare_metal_version(out)
    IN  IF ~r.ok THEN arch
        ELSE LET a == SelectArchList(r.major, r.minor)
             IN  IF a.ok THEN SetTo(a.val) ELSE arch

-----------------------------------------------------------------------------
(* build_extensions *)

\* Variant: FORCE_CUDA is ignored
UseCudaRuntimeOnly(cuda, force) == cuda

UseCuda(cuda, force) == cuda \/ Getenv(force, "0") = "1"

\* Variant: a configured architecture list is not respected
CrossCompilingAlways(cuda, force, arch) ==
    ~cuda /\ Getenv(force, "0") = "1"

CrossCompiling(cuda, force, arch) ==
    ~cuda /\ Getenv(force, "0") = "1" /\ ~arch.set

get_include_dirs == <<>>

\* Variant: the import error is not caught
ImportFailureRaises(arch) ==
    [raised |-> TRUE, ext_modules |-> <<>>, cmdclass |-> {},
     arch |-> arch, probe |-> NotRun]

ImportFailureResult(arch) ==
    [raised |-> FALSE, ext_modules |-> <<>>, cmdclass |-> {},
     arch |-> arch, probe |-> NotRun]

CUDA_MACROS == <<"WITH_CUDA", "THRUST_IGNORE_CUB_VERSION_CHECK">>
NVCC_FLAGS == <<"-O3", "-DWITH_CUDA", "-DTHRUST_IGNORE_CUB_VERSION_CHECK">>
BUILD_EXT_CMD == <<"build_ext", "BuildExtension.with_options(no_python_abi_suffix=True)">>

Extension(cls, sources, define_macros, extra_compile_args, include_dirs) ==
    [cls |-> cls, name |-> EXT_NAME, sources |-> sources,
     define_macros |-> define_macros,
     extra_compile_args |-> extra_compile_args,
     include_dirs |-> include_dirs]

\* tc: the imports succeed; tree: the files the globs match; out: what the
\* nvcc subprocess does if it is run
build_extensions(tc, cuda, force, arch, tree, out) ==
    IF ~tc THEN ImportFailureResult(arch)
    ELSE IF UseCuda(cuda, force)
    THEN LET cross == CrossCompiling(cuda, force, arch)
         IN  [raised |-> FALSE,
              ext_modules |->
                  <<Extension("CUDAExtension", tree.cpp \o tree.cu, CUDA_MACROS,
                              {<<"cxx", <<"-O3">> >>, <<"nvcc", NVCC_FLAGS>>},
                              get_include_dirs)>>,
              cmdclass |-> {BUILD_EXT_CMD},
              arch |-> IF cross THEN ProbeArchList(out, arch) ELSE arch,
              probe |-> IF cross THEN out ELSE NotRun]
    ELSE [raised |-> FALSE,
          ext_modules |->
              <<Extension("CppExtension", tree.cpp, <<>>,
                          {<<"cxx", <<"-O3">> >>}, <<>>)>>,
          cmdclass |-> {BUILD_EXT_CMD},
          arch |-> arch,
          probe |-> NotRun]

\* Variant: only "0" disables the native build
BuildEnabledUnlessZero(env) == Getenv(env, "1") # "0"

\* Line 105
BuildEnabled(env) == Getenv(env, "1") = "1"

-----------------------------------------------------------------------------
(* Inputs: the files and the environment a process can start from *)

VersionChars == {"1", " ", "\n"}

SeqsUpTo(S, n) == UNION {[1..k -> S] : k \in 0..n}

VersionTxtFiles == {NoFile} \cup {File(d) : d \in SeqsUpTo(VersionChars, MaxLen)}

VersionEnvs == {Unset, SetTo(<<>>), SetTo(<<"2">>)}

OldPy == <<"o", "l", "d", "\n", "x", "\n">>

\* <<state of the package directory, version.py in it>>
PackageDirs == {<<"missing", NoFile>>, <<"readonly", File(OldPy)>>,
                <<"ok", NoFile>>, <<"ok", File(OldPy)>>}

SourceTrees == {[cpp |-> <<"torchsdf/csrc/sdf.cpp">>,
                 cu |-> <<"torchsdf/csrc/sdf_cuda.cu">>]}

BuildExtEnvs == {UnsetFlag, SetTo("1"), SetTo("0"), SetTo("true")}
ForceCudaEnvs == {UnsetFlag, SetTo("1"), SetTo("0")}
ArchListEnvs == {UnsetFlag, SetTo(""), SetTo("7.0")}

Txt(major, rest) == RELEASE \o <<" ">> \o major \o <<".">> \o rest

NvccOutcomes ==
    { Raises,
      Prints(<<"n", "v", "c", "c", "\n">> \o Txt(<<"1", "1">>, <<"0", ",">>)
             \o <<" ", "V", "1", "1", ".", "0">>),
      Prints(Txt(<<"1", "1">>, <<"3", ",">>)),
      Prints(Txt(<<"1", "1">>, <<"0", "3">>)),
      Prints(Txt(<<"1", "1">>, <<"1", "0">>)),
      Prints(Txt(<<"0", "1", "1">>, <<"0">>)),
      Prints(Txt(<<"1", "0">>, <<"2", ",">>)),
      Prints(Txt(<<"1", "2">>, <<"0">>)),
      Prints(Txt(<<"1", "0">>, <<"x">>)),
      Prints(Txt(<<"1", "1">>, <<"x">>)),
      Prints(Txt(<<"x">>, <<"1">>)),
      Prints(Txt(<<"1", "1">>, <<>>)),
      Prints(Txt(<<"1", "1">>, <<"0", ".", "1">>)),
      Prints(RELEASE \o <<" ", "1", "1">>),
      Prints(<<"n", "v", "c", "c", " ">> \o RELEASE),
      Prints(<<"n", "v", "c", "c", " ", "1", "1", ".", "0">>),
      Prints(Txt(<<"9">>, <<"0">>) \o <<" ">> \o Txt(<<"1", "1">>, <<"0">>)) }

NoCall == [called |-> FALSE, name |-> "", version |-> <<>>, license |-> "",
           zip_safe |-> TRUE, ext_modules |-> <<>>, cmdclass |-> {}]

-----------------------------------------------------------------------------
(* The script as a state machine *)

Init ==
    /\ pc = "start"
    /\ runs = 1
    /\ trace = <<>>
    /\ versionTxt \in VersionTxtFiles
    /\ envVersion \in VersionEnvs
    /\ \E d \in PackageDirs : pkgDir = d[1] /\ versionPy = d[2]
    /\ firstPy = NoFile
    /\ csrc \in SourceTrees
    /\ envBuildExt \in BuildExtEnvs
    /\ toolchain \in BOOLEAN
    /\ cudaAvailable \in BOOLEAN
    /\ envForceCuda \in ForceCudaEnvs
    /\ archList0 \in ArchListEnvs
    /\ archList = archList0
    /\ probe = NotRun
    /\ version = <<>>
    /\ build_ext = FALSE
    /\ ext_modules = <<>>
    /\ cmdclass = {}
    /\ setupArgs = NoCall

inputs == <<versionTxt, envVersion, pkgDir, csrc, envBuildExt, toolchain,
            cudaAvailable, envForceCuda, archList0>>

\* Line 25: version = read_version()
ReadVersion ==
    /\ pc = "start"
    /\ version' = read_version(versionTxt, envVersion)
    /\ trace' = Append(trace, "read_version")
    /\ pc' = "write"
    /\ UNCHANGED <<inputs, runs, versionPy, firstPy, archList, probe,
                   build_ext, ext_modules, cmdclass, setupArgs>>

\* Line 102: write_version_file(); an exception ends the process
WriteVersionFile ==
    /\ pc = "write"
    /\ LET w == write_version_file(pkgDir, versionPy, version)
       IN  /\ versionPy' = w.file
           /\ pc' = IF w.raised THEN "error" ELSE "toggle"
    /\ trace' = Append(trace, "write_version_file")
    /\ UNCHANGED <<inputs, runs, firstPy, archList, probe, version,
                   build_ext, ext_modules, cmdclass, setupArgs>>

\* Line 105: build_ext = os.getenv("TORCHSDF_BUILD_EXT", "1") == "1"
DecideToggle ==
    /\ pc = "toggle"
    /\ build_ext' = BuildEnabled(envBuildExt)
    /\ trace' = Append(trace, "toggle")
    /\ pc' = "extensions"
    /\ UNCHANGED <<inputs, runs, versionPy, firstPy, archList, probe, version,
                   ext_modules, cmdclass, setupArgs>>

\* Line 106 with build_ext false: ([], {})
SkipExtensions ==
    /\ pc = "extensions"
    /\ ~build_ext
    /\ ext_modules' = <<>>
    /\ cmdclass' = {}
    /\ pc' = "setup"
    /\ UNCHANGED <<inputs, runs, trace, versionPy, firstPy, archList, probe,
                   version, build_ext, setupArgs>>

\* Line 106 with build_ext true: build_extensions()
BuildExtensions ==
    /\ pc = "extensions"
    /\ build_ext
    /\ \E out \in NvccOutcomes :
          LET r == build_extensions(toolchain, cudaAvailable, envForceCuda,
                                    archList, csrc, out)
          IN  /\ archList' = r.arch
              /\ probe' = r.probe
              /\ ext_modules' = r.ext_modules
              /\ cmdclass' = r.cmdclass
              /\ pc' = IF r.raised THEN "error" ELSE "setup"
    /\ trace' = Append(trace, "build_extensions")
    /\ UNCHANGED <<inputs, runs, versionPy, firstPy, version, build_ext,
                   setupArgs>>

\* Lines 108-116: setup(...)
Setup ==
    /\ pc = "setup"
    /\ setupArgs' = [called |-> TRUE, name |-> PACKAGE_NAME,
                     version |-> version, license |-> LICENSE,
                     zip_safe |-> FALSE, ext_modules |-> ext_modules,
                     cmdclass |-> cmdclass]
    /\ trace' = Append(trace, "setup")
    /\ pc' = "done"
    /\ UNCHANGED <<inputs, runs, versionPy, firstPy, archList, probe, version,
                   build_ext, ext_modules, cmdclass>>

\* The script is run again with the same files and the same environment: a
\* new process, which inherits the environment of the caller
Rerun ==
    /\ pc \in {"done", "error"}
    /\ runs < MaxRuns
    /\ runs' = runs + 1
    /\ firstPy' = IF runs = 1 THEN versionPy ELSE firstPy
    /\ pc' = "start"
    /\ trace' = <<>>
    /\ archList' = archList0
    /\ probe' = NotRun
    /\ version' = <<>>
    /\ build_ext' = FALSE
    /\ ext_modules' = <<>>
    /\ cmdclass' = {}
    /\ setupArgs' = NoCall
    /\ UNCHANGED <<inputs, versionPy>>

Next ==
    \/ ReadVersion
    \/ WriteVersionFile
    \/ DecideToggle
    \/ SkipExtensions
    \/ BuildExtensions
    \/ Setup
    \/ Rerun

Spec == Init /\ [][Next]_vars

TypeOK ==
    /\ pc \in {"start", "write", "toggle", "extensions", "setup", "done", "error"}
    /\ runs \in 1..MaxRuns
    /\ Len(ext_modules) <= 1

-----------------------------------------------------------------------------
(* Vocabulary of the properties *)

Range(f) == {f[i] : i \in DOMAIN f}
Called(step) == step \in Range(trace)
AfterWrite == {"toggle", "extensions", "setup", "done"}
AfterExtensions == {"setup", "done"}

AllWhitespace(s) == \A i \in 1..Len(s) : s[i] \in Whitespace

\* l is the first line of d, without its terminator
IsFirstLine(l, d) ==
    /\ Len(l) <= Len(d)
    /\ SubSeq(d, 1, Len(l)) = l
    /\ "\n" \notin Range(l)
    /\ (Len(d) = Len(l) \/ d[Len(l) + 1] = "\n")

\* t is l without its leading and trailing whitespace
IsTrimOf(t, l) ==
    /\ t = <<>> \/ (t[1] \notin Whitespace /\ t[Len(t)] \notin Whitespace)
    /\ \E i \in 0..Len(l) :
          /\ i + Len(t) <= Len(l)
          /\ SubSeq(l, i + 1, i + Len(t)) = t
          /\ AllWhitespace(SubSeq(l, 1, i))
          /\ AllWhitespace(SubSeq(l, i + Len(t) + 1, Len(l)))

IsTrimmedFirstLine(t, d) ==
    \E n \in 0..Len(d) :
        IsFirstLine(SubSeq(d, 1, n), d) /\ IsTrimOf(t, SubSeq(d, 1, n))

ForcedCuda == envForceCuda.set /\ envForceCuda.val = "1"
ToggleDisabled == envBuildExt.set /\ envBuildExt.val # "1"

-----------------------------------------------------------------------------
(* Properties *)

\* C1: read_version resolves the version in strict priority order: with
\* version.txt present the result is its whitespace-trimmed first line,
\* whatever TORCHSDF_VERSION is and even when that line is empty; with
\* version.txt absent it is TORCHSDF_VERSION if set, else "0.0.0".
C1_VersionPriority ==
    pc # "start" =>
        /\ versionTxt.exists => IsTrimmedFirstLine(version, versionTxt.data)
        /\ (~versionTxt.exists /\ envVersion.set) => version = envVersion.val
        /\ (~versionTxt.exists /\ ~envVersion.set)
              => version = <<"0", ".", "0", ".", "0">>

C1_Witness ==
    /\ pc = "write"
    /\ versionTxt = File(<<" ", "1">>)
    /\ envVersion = SetTo(<<"2">>)
    /\ version = <<"1">>

\* C2: after a run of the script, version.py holds exactly the statement
\* __version__ = '<trimmed first line of version.txt>' and setup() was
\* handed the same version string that was written.
C2_WrittenMatchesRead ==
    pc = "done" =>
        /\ setupArgs.called
        /\ versionPy.exists
        /\ versionPy.data =
              <<"_", "_", "v", "e", "r", "s", "i", "o", "n", "_", "_",
                " ", "=", " ", "'">> \o setupArgs.version \o <<"'", "\n">>
        /\ versionTxt.exists
              => IsTrimmedFirstLine(setupArgs.version, versionTxt.data)

C2_Witness ==
    /\ pc = "done"
    /\ versionTxt = File(<<"1", "\n">>)
    /\ setupArgs.version = <<"1">>
    /\ Len(versionPy.data) = 18

\* C3: with TORCHSDF_BUILD_EXT set to anything but "1", the extension list
\* and the customization map given to setup() are empty whatever the
\* toolchain, the accelerator and FORCE_CUDA are, build_extensions is not
\* invoked and TORCH_CUDA_ARCH_LIST is not modified; with the variable absent
\* the native build is attempted.
C3_ToggleDisabled ==
    /\ (ToggleDisabled /\ pc \in AfterExtensions) =>
          /\ ext_modules = <<>>
          /\ cmdclass = {}
          /\ ~Called("build_extensions")
          /\ archList = archList0
          /\ pc = "done" => (/\ setupArgs.called
                             /\ setupArgs.ext_modules = <<>>
                             /\ setupArgs.cmdclass = {})
    /\ (~envBuildExt.set /\ pc \in AfterExtensions)
          => Called("build_extensions")

C3_Witness ==
    /\ pc = "done"
    /\ envBuildExt = SetTo("true")
    /\ toolchain
    /\ cudaAvailable
    /\ ForcedCuda
    /\ setupArgs.ext_modules = <<>>

\* C4: when the toolchain import fails, build_extensions returns [] and {},
\* no error propagates, and setup() is still invoked with these empty values.
C4_ImportFailureDegrades ==
    (Called("build_extensions") /\ ~toolchain) =>
        /\ pc \in AfterExtensions
        /\ ext_modules = <<>>
        /\ cmdclass = {}
        /\ pc = "setup" => ENABLED Setup
        /\ pc = "done" => (/\ setupArgs.called
                           /\ setupArgs.ext_modules = <<>>
                           /\ setupArgs.cmdclass = {})

C4_Witness ==
    /\ pc = "done"
    /\ Called("build_extensions")
    /\ ~toolchain
    /\ ~envBuildExt.set
    /\ setupArgs.called
    /\ setupArgs.cmdclass = {}

\* C5: with the toolchain importable, build_extensions returns exactly one
\* descriptor named torchsdf._C, of the CUDA kind iff an accelerator is
\* detected or FORCE_CUDA is "1" and of the CPU-only kind otherwise; the .cpp
\* sources are always included; the .cu sources, the two CUDA macros and the
\* nvcc flags are there iff accelerator mode is selected.
C5_ExtensionDescriptor ==
    (Called("build_extensions") /\ toolchain) =>
        /\ Len(ext_modules) = 1
        /\ LET ext == ext_modules[1]
               accel == cudaAvailable \/ ForcedCuda
           IN  /\ ext.name = "torchsdf._C"
               /\ ext.cls = IF accel THEN "CUDAExtension" ELSE "CppExtension"
               /\ ext.sources = csrc.cpp \o (IF accel THEN csrc.cu ELSE <<>>)
               /\ ("WITH_CUDA" \in Range(ext.define_macros)) <=> accel
               /\ ("THRUST_IGNORE_CUB_VERSION_CHECK" \in Range(ext.define_macros))
                     <=> accel
               /\ (\E a \in ext.extra_compile_args : a[1] = "nvcc") <=> accel
               /\ \E a \in ext.extra_compile_args : a[1] = "cxx"

C5_Witness ==
    /\ pc = "setup"
    /\ toolchain
    /\ ~cudaAvailable
    /\ ForcedCuda
    /\ csrc.cu # <<>>
    /\ Len(ext_modules) = 1
    /\ ext_modules[1].cls = "CUDAExtension"
    /\ Len(ext_modules[1].sources) = 2

\* The try block of the cross-compile branch was left by an exception: the
\* subprocess failed, the banner has no "release" token or no token after
\* it, that token is not of the form <major>.<minor> with a non-empty minor,
\* or a number that int() is applied to does not parse.
ProbeFailed ==
    /\ probe.ran
    /\ \/ probe.raises
       \/ RELEASE \notin Range(SplitWs(probe.raw))
       \/ ~get_cuda_bare_metal_version(probe).ok
       \/ ~IsIntLiteral(get_cuda_bare_metal_version(probe).major)
       \/ /\ IntValue(get_cuda_bare_metal_version(probe).major) = 11
          /\ get_cuda_bare_metal_version(probe).minor[1] \notin Digits

\* C6: with FORCE_CUDA = "1", no runtime accelerator, no architecture list
\* configured and a failing toolchain version probe, the process completes
\* without error, leaves TORCH_CUDA_ARCH_LIST unset and still produces the
\* accelerator descriptor.
C6_ProbeFailureSwallowed ==
    (/\ Called("build_extensions")
     /\ toolchain /\ ~cudaAvailable /\ ForcedCuda /\ ~archList0.set
     /\ ProbeFailed) =>
        /\ pc \in AfterExtensions
        /\ ~archList.set
        /\ Len(ext_modules) = 1
        /\ ext_modules[1].cls = "CUDAExtension"
        /\ pc = "done" => setupArgs.ext_modules = ext_modules

C6_Witness ==
    /\ pc = "done"
    /\ ProbeFailed
    /\ ~probe.raises
    /\ RELEASE \in Range(SplitWs(probe.raw))
    /\ ~archList.set
    /\ setupArgs.called
    /\ Len(setupArgs.ext_modules) = 1

\* C7: version.py is overwritten on every invocation and the write is
\* idempotent: a second run with the same version.txt and environment
\* leaves the file as the first run left it, and whatever the file held
\* before is fully replaced.
C7_WriteIdempotent ==
    /\ (runs >= 2 /\ pc \in AfterWrite \cup {"error"}) => versionPy = firstPy
    /\ pc \in AfterWrite =>
          /\ versionPy.exists
          /\ Cardinality({i \in 1..Len(versionPy.data) :
                             versionPy.data[i] = "\n"}) = 1
          /\ SubSeq(versionPy.data, 1, 2) = <<"_", "_">>

C7_Witness ==
    /\ runs = 2
    /\ pc = "toggle"
    /\ versionPy.exists
    /\ versionPy = firstPy
    /\ version # <<>>

\* C8: the script writes TORCH_CUDA_ARCH_LIST only when the toolchain
\* imported, no runtime accelerator is present, FORCE_CUDA is "1" and the
\* variable was unset; in every other case it keeps its previous value or
\* stays unset.
C8_ArchListFrame ==
    archList # archList0 =>
        /\ Called("build_extensions")
        /\ toolchain
        /\ ~cudaAvailable
        /\ ForcedCuda
        /\ ~archList0.set

C8_Witness ==
    /\ archList # archList0
    /\ archList.set
    /\ pc = "setup"

\* The token after the first "release" reads <major>.<rest> with a single
\* dot and a non-empty rest, and c is the first character of rest
ReleaseTokenIs(major, c) ==
    /\ probe.ran /\ ~probe.raises
    /\ LET toks == SplitWs(probe.raw)
       IN  \E i \in 1..(Len(toks) - 1) :
              /\ toks[i] = RELEASE
              /\ \A j \in 1..(i - 1) : toks[j] # RELEASE
              /\ \E k \in 1..(Len(toks[i + 1]) - 1) :
                    /\ toks[i + 1][k] = "."
                    /\ \A m \in 1..Len(toks[i + 1]) :
                          toks[i + 1][m] = "." => m = k
                    /\ major = SubSeq(toks[i + 1], 1, k - 1)
                    /\ c = toks[i + 1][k + 1]

Majors == {<<"1", "1">>, <<"0", "1", "1">>, <<"1", "0">>, <<"1", "2">>, <<"9">>}

\* C9: in the cross-compilation case with a successful probe the list
\* depends only on the parsed version: major 11 with first minor digit 0
\* gives 6.0;6.1;6.2;7.0;7.5;8.0, major 11 with another first minor digit
\* gives 6.0;6.1;6.2;7.0;7.5;8.0;8.6, any other major gives
\* 6.0;6.1;6.2;7.0;7.5; the minor is the first character after the dot.
C9_ArchTable ==
    \A major \in Majors : \A c \in Digits \cup {"x", ","} :
        ReleaseTokenIs(major, c) =>
            /\ (IntValue(major) = 11 /\ c = "0")
                  => archList = SetTo("6.0;6.1;6.2;7.0;7.5;8.0")
            /\ (IntValue(major) = 11 /\ c \in Digits \ {"0"})
                  => archList = SetTo("6.0;6.1;6.2;7.0;7.5;8.0;8.6")
            /\ IntValue(major) # 11
                  => archList = SetTo("6.0;6.1;6.2;7.0;7.5")

C9_Witness ==
    /\ ReleaseTokenIs(<<"1", "1">>, "1")
    /\ probe.raw = Txt(<<"1", "1">>, <<"1", "0">>)
    /\ archList = SetTo("6.0;6.1;6.2;7.0;7.5;8.0;8.6")

StepOrder ==
    <<"read_version", "write_version_file", "toggle", "build_extensions", "setup">>
StepPos(step) == CHOOSE i \in 1..Len(StepOrder) : StepOrder[i] = step

\* C10: the steps of a run occur in the order resolve version, write the
\* version file, decide the toggle, build_extensions, setup(); if writing
\* the version file fails the error propagates and neither build_extensions
\* nor setup() is reached, and TORCH_CUDA_ARCH_LIST is left unmodified.
C10_StepOrder ==
    /\ \A i, j \in 1..Len(trace) :
          i < j => StepPos(trace[i]) < StepPos(trace[j])
    /\ \A i \in 1..Len(trace) :
          trace[i] # "build_extensions" =>
              \A k \in 1..(StepPos(trace[i]) - 1) :
                  StepOrder[k] # "build_extensions" => Called(StepOrder[k])
    /\ Called("build_extensions") => Called("toggle")
    /\ (pkgDir # "ok" /\ pc \notin {"start", "write"}) =>
          /\ pc = "error"
          /\ trace = <<"read_version", "write_version_file">>
          /\ ~setupArgs.called
          /\ ext_modules = <<>>
          /\ archList = archList0
          /\ probe = NotRun

C10_Witness ==
    /\ pc = "error"
    /\ pkgDir = "missing"
    /\ toolchain
    /\ ~cudaAvailable
    /\ ForcedCuda
    /\ ~archList0.set
    /\ ~ToggleDisabled

====
